---- MODULE Spec2Model ----
(***************************************************************************)
(* Model of the DDO registry of aquarius (src/aquarius/app/assets.py):     *)
(* the request handlers register, update, transfer_ownership,              *)
(* update_ratings, add_access_white_list, delete_access_white_list,        *)
(* retire, update_metadata and retire_all, acting on the document store    *)
(* behind dao.                                                             *)
(***************************************************************************)
EXTENDS Integers, Sequences, FiniteSets, TLC

VARIABLES store,     \* DID -> stored DDO, or NoDoc when dao.get(did) is None
          now,       \* the clock read by get_timestamp()
          last,      \* the request handled last and the response it got
          inflight,  \* requests that have read the store and not yet written
          freeOnly   \* Config.allow_free_assets_only is 'true'

vars == <<store, now, last, inflight, freeOnly>>

----------------------------------------------------------------------------
(* Bounds *)

MaxTime == 1       \* the clock runs over 0..MaxTime
MaxWL == 2         \* accesssWhiteList is not grown beyond this length
MaxInflight == 2   \* concurrent requests between their read and their write
MaxSvc == 3        \* services in a payload, where every list of services is tried

----------------------------------------------------------------------------
(* Values *)

DIDs == {"d1", "d2"}
Times == 0..MaxTime
Msgs == {"m1", "m2"}          \* texts a caller submits as `updated`

NoDoc == [none |-> TRUE]

\* An address: the account it names and the casing it is written in.
Addr(i, c) == [id |-> i, cs |-> c]
OwnerAddrs == {Addr("A", "lo"), Addr("A", "ck"), Addr("B", "lo")}
BadAddr == Addr("A", "bad")    \* a text that is not an address
NoAddr == Addr("none", "none")
ReqAddrs == OwnerAddrs \cup {BadAddr}

\* Web3.isAddress: a syntactic check.
isAddress(a) == a.cs \in {"lo", "ck"}

\* str.lower() of an address text.
lower(a) == IF a.cs = "ck" THEN Addr(a.id, "lo") ELSE a

\* compare_eth_addresses: both are addresses and their lower-case forms agree.
compare_eth_addresses(a, b) ==
    isAddress(a) /\ isAddress(b) /\ lower(a) = lower(b)

\* A signature over the text msg made with the key of account `by`.
Sig(m, b) == [msg |-> m, by |-> b]
\* The updated and signature fields of a request body, or their absence.
Auth(u, sg) == [present |-> TRUE, updated |-> u, sig |-> sg]
NoAuth == [present |-> FALSE, updated |-> "m1", sig |-> Sig("m1", "A")]

\* Signature recovery: the signer's address when the signature was made over
\* the given text, some unrelated address otherwise.
recoverSigner(msg, sig) ==
    IF sig.msg = msg THEN Addr(sig.by, "ck") ELSE Addr("Z", "ck")

AllowedUpdaters == {Addr("U", "lo")}

\* A timestamp text: the instant it denotes and how it is written.
TS(v, f) == [v |-> v, form |-> f]

\* datetime.strptime(timestamp, DATETIME_FORMAT) succeeds: the text is written
\* either in the canonical zero-padded way ("canon") or with unpadded fields
\* ("loose"); any other text ("bad") raises ValueError.
strptimeOk(ts) == ts.form \in {"canon", "loose"}

\* validate_date_format: (None, None), or the 400 message.
validate_date_format(ts) == strptimeOk(ts)

\* format_timestamp: parse, then write with isoformat() and "Z": the canonical
\* text of the same instant.
format_timestamp(ts) == TS(ts.v, "canon")

\* get_timestamp: the clock, second precision, canonical text.
get_timestamp(clock) == TS(clock, "canon")

----------------------------------------------------------------------------
(* Documents *)

\* attributes.curation of a service, or its absence.
Cur(r, n, l) == [present |-> TRUE, rating |-> r, numVotes |-> n, isListed |-> l]
NoCur == [present |-> FALSE, rating |-> 0, numVotes |-> 0, isListed |-> FALSE]

\* The value of accesssWhiteList: no such key, a value that is not a list,
\* or a list of address texts.
WL(items) == [kind |-> "list", items |-> items]
WLAbsent == [kind |-> "absent", items |-> <<>>]
WLScalar == [kind |-> "scalar", items |-> <<>>]

\* A service: its type, the caller-assigned index, and for a metadata service
\* attributes.main.name, attributes.main.price, the links of
\* attributes.additionalInformation and attributes.curation.
Svc(t, i, m, n, p, d, k, c) ==
    [type |-> t, index |-> i, main |-> m, name |-> n, price |-> p,
     desc |-> d, links |-> k, cur |-> c]
Meta(i, c) == Svc("metadata", i, TRUE, "n0", "0", "x0", <<>>, c)
MetaPriced(i, c, p) == Svc("metadata", i, TRUE, "n0", p, "x0", <<>>, c)
Other(t, i, m) == Svc(t, i, m, "", "1", "", <<>>, NoCur)

RECURSIVE SelectSeqIdx(_, _, _)
\* services[k..] filtered by type: metadata entries (want = TRUE) or the others.
SelectSeqIdx(services, k, want) ==
    IF k > Len(services) THEN <<>>
    ELSE IF (services[k].type = "metadata") = want
         THEN <<services[k]>> \o SelectSeqIdx(services, k + 1, want)
         ELSE SelectSeqIdx(services, k + 1, want)

\* (mutant) the services left in the order submitted.
reorder_servicesKeep(services) == services

\* (mutant) only the first metadata service is kept, before the others.
reorder_servicesOne(services) ==
    LET metas == SelectSeqIdx(services, 1, TRUE) IN
    (IF Len(metas) > 0 THEN <<metas[1]>> ELSE <<>>)
        \o SelectSeqIdx(services, 1, FALSE)

\* (mutant) the other services are put right behind the metadata services,
\* each before the ones put there earlier.
reorder_servicesInsert(services) ==
    LET others == SelectSeqIdx(services, 1, FALSE) IN
    SelectSeqIdx(services, 1, TRUE)
        \o [k \in 1..Len(others) |-> others[Len(others) + 1 - k]]

\* _reorder_services: the metadata services, then the others, each group in
\* the order of the input.
_reorder_services(services) ==
    SelectSeqIdx(services, 1, TRUE) \o SelectSeqIdx(services, 1, FALSE)

HasMetadata(services) == \E k \in 1..Len(services) : services[k].type = "metadata"

\* _get_metadata: the first metadata service (None, when there is none).
_get_metadata(services) ==
    services[CHOOSE k \in 1..Len(services) :
                /\ services[k].type = "metadata"
                /\ \A j \in 1..(k - 1) : services[j].type # "metadata"]

\* A stored document. owner is publicKey[0].owner.
Doc(i, c, u, o, w, s) ==
    [id |-> i, created |-> c, updated |-> u, owner |-> o, wl |-> w, service |-> s]

\* The body of a Create or FullUpdate request. defect names what the payload
\* lacks: "missing" a required attribute, "url" a url inside files, "date" a
\* main.dateCreated of the metadata services that strptime parses, "schema"
\* metadata attributes the remote schema rejects; "none" otherwise.
Payload(i, c, o, w, s, x) ==
    [id |-> i, created |-> c, owner |-> o, wl |-> w, service |-> s, defect |-> x]

----------------------------------------------------------------------------
(* Responses and store effects *)

R(code, err) == [code |-> code, err |-> err]
Ok200 == R(200, "none")
Ok201 == R(201, "none")
Validation == R(400, "Validation")
Conflict == R(400, "Conflict")
Unauthorized == R(401, "Authorization")
NotFound == R(404, "NotFound")
Internal == R(500, "Internal")

\* What a handler hands to dao after its checks: nothing, dao.register,
\* dao.update, dao.delete, or a delete of every document.
Eff(k, d, rec) == [kind |-> k, did |-> d, rec |-> rec]
NoEff == Eff("none", "d1", NoDoc)

Out(resp, eff) == [resp |-> resp, eff |-> eff]
Reject(resp) == Out(resp, NoEff)

\* dao.get(did): the document, or None.
daoGet(st, did) == st[did]

\* dao.register raises when the id is already stored; dao.update and
\* dao.delete write unconditionally.
EffFails(st, eff) == eff.kind = "register" /\ st[eff.did] # NoDoc

ApplyEff(st, eff) ==
    CASE eff.kind \in {"register", "registerQuiet"} ->
            IF st[eff.did] # NoDoc THEN st ELSE [st EXCEPT ![eff.did] = eff.rec]
      [] eff.kind = "update" -> [st EXCEPT ![eff.did] = eff.rec]
      [] eff.kind = "delete" -> [st EXCEPT ![eff.did] = NoDoc]
      [] eff.kind = "deleteAll" -> [d \in DOMAIN st |-> NoDoc]
      [] OTHER -> st

----------------------------------------------------------------------------
(* Authorization (aquarius.app.util) *)

\* _can_update_did: the signer of (updated, signature) is the stored owner.
_can_update_did(rec, auth) ==
    compare_eth_addresses(recoverSigner(auth.updated, auth.sig), rec.owner)

\* _can_update_did_from_allowed_updaters: the signer is in the configured list.
_can_update_did_from_allowed_updaters(rec, auth) ==
    \E a \in AllowedUpdaters :
        compare_eth_addresses(recoverSigner(auth.updated, auth.sig), a)

\* request.environ['REMOTE_ADDR'] is 127.0.0.1 or localhost.
IsLocal(admin) == admin

----------------------------------------------------------------------------
(* get_metadata: GET /metadata/<did> *)

\* get_metadata: the first metadata service of the document; any exception
\* (no document, no metadata service) is answered 404.
get_metadata(st, did) ==
    LET rec == daoGet(st, did) IN
    IF rec = NoDoc THEN Reject(NotFound)
    ELSE IF ~HasMetadata(rec.service) THEN Reject(NotFound)
    ELSE Out(Ok200, NoEff)

----------------------------------------------------------------------------
(* register: POST /ddo *)

\* (mutant) a curation the payload carries is kept.
InitCurationKeep(services) ==
    [k \in 1..Len(services) |->
        IF services[k].type = "metadata" /\ ~services[k].cur.present
        THEN [services[k] EXCEPT !.cur = Cur(0, 0, TRUE)]
        ELSE services[k]]

\* The loop of register over the services: every metadata service gets the
\* initial curation.
InitCuration(services) ==
    [k \in 1..Len(services) |->
        IF services[k].type = "metadata"
        THEN [services[k] EXCEPT !.cur = Cur(0, 0, TRUE)]
        ELSE services[k]]

\* accesssWhiteList of the record: the submitted list, [] when the key is
\* missing or is not a list.
InitWhiteList(w) == IF w.kind = "list" THEN w ELSE WL(<<>>)

RegisterRecord(p) ==
    Doc(p.id,
        format_timestamp(p.created),
        format_timestamp(p.created),
        p.owner,
        InitWhiteList(p.wl),
        _reorder_services(InitCuration(p.service)))

\* The checks register and update share: required attributes, then
\* _get_main_metadata (TypeError without a metadata service, raised outside
\* the try), then files, then the format of created.
PayloadCheck(p) ==
    IF p.defect = "missing" THEN Validation
    ELSE IF ~HasMetadata(p.service) THEN Internal
    ELSE IF p.defect = "url" THEN Validation
    ELSE IF ~validate_date_format(p.created) THEN Validation
    ELSE Ok200

\* A metadata service with a price other than "0".
Priced(services) ==
    \E k \in 1..Len(services) :
        services[k].type = "metadata" /\ services[k].price # "0"

\* (mutant) the record is written with dao.update.
registerUpsert(st, free, p) ==
    IF PayloadCheck(p) # Ok200 THEN Reject(PayloadCheck(p))
    ELSE IF /\ p.defect = "date"
            /\ ~(free /\ _get_metadata(p.service).price # "0") THEN Reject(Internal)
    ELSE IF free /\ Priced(p.service) THEN Reject(Validation)
    ELSE IF p.defect = "schema" THEN Reject(Validation)
    ELSE Out(Ok201, Eff("update", p.id, RegisterRecord(p)))

\* register: the loop over the services looks, per metadata service, at the
\* price and then formats dateCreated, outside any try: a text that does not
\* parse raises ValueError.
register(st, free, p) ==
    IF PayloadCheck(p) # Ok200 THEN Reject(PayloadCheck(p))
    ELSE IF /\ p.defect = "date"
            /\ ~(free /\ _get_metadata(p.service).price # "0") THEN Reject(Internal)
    ELSE IF free /\ Priced(p.service) THEN Reject(Validation)
    ELSE IF p.defect = "schema" THEN Reject(Validation)
    ELSE Out(Ok201, Eff("register", p.id, RegisterRecord(p)))

----------------------------------------------------------------------------
(* update: PUT /ddo/<did> *)

UpdateRecord(p) ==
    Doc(p.id,
        format_timestamp(p.created),
        format_timestamp(p.created),
        p.owner,
        p.wl,
        _reorder_services(p.service))

\* (mutant) the record is written before its metadata attributes are
\* validated.
updateWriteFirst(st, free, did, admin, p) ==
    IF ~IsLocal(admin) THEN Reject(Unauthorized)
    ELSE IF PayloadCheck(p) # Ok200 THEN Reject(PayloadCheck(p))
    ELSE IF p.defect = "date" THEN Reject(Internal)
    ELSE IF p.defect = "schema" THEN Out(Validation, Eff("update", did, UpdateRecord(p)))
    ELSE IF daoGet(st, did) = NoDoc
         THEN Out(Ok201, [register(st, free, p).eff EXCEPT
                            !.kind = IF @ = "register" THEN "registerQuiet" ELSE @])
    ELSE IF free /\ Priced(p.service) THEN Reject(Validation)
    ELSE Out(Ok200, Eff("update", did, UpdateRecord(p)))

\* update: only a local caller passes; no signature is looked at. dateCreated
\* and datePublished are formatted outside any try. An absent did falls back
\* to register(), whose own response is dropped.
update(st, free, did, admin, p) ==
    IF ~IsLocal(admin) THEN Reject(Unauthorized)
    ELSE IF PayloadCheck(p) # Ok200 THEN Reject(PayloadCheck(p))
    ELSE IF p.defect = "date" THEN Reject(Internal)
    ELSE IF p.defect = "schema" THEN Reject(Validation)
    ELSE IF daoGet(st, did) = NoDoc
         THEN Out(Ok201, [register(st, free, p).eff EXCEPT
                            !.kind = IF @ = "register" THEN "registerQuiet" ELSE @])
    ELSE IF free /\ Priced(p.service) THEN Reject(Validation)
    ELSE Out(Ok200, Eff("update", did, UpdateRecord(p)))

----------------------------------------------------------------------------
(* transfer_ownership: PUT /ddo/owner/update/<did> *)

\* (mutant) the new owner is compared with the stored text as written.
transfer_ownershipExact(st, clock, did, auth, newOwner) ==
    LET rec == daoGet(st, did) IN
    IF ~auth.present THEN Reject(Validation)
    ELSE IF ~isAddress(newOwner) THEN Reject(Validation)
    ELSE IF rec = NoDoc THEN Reject(NotFound)
    ELSE IF ~_can_update_did(rec, auth) THEN Reject(Unauthorized)
    ELSE IF rec.owner = newOwner THEN Reject(Validation)
    ELSE Out(Ok200, Eff("update", did,
                [rec EXCEPT !.owner = newOwner, !.updated = get_timestamp(clock)]))

transfer_ownership(st, clock, did, auth, newOwner) ==
    LET rec == daoGet(st, did) IN
    IF ~auth.present THEN Reject(Validation)
    ELSE IF ~isAddress(newOwner) THEN Reject(Validation)
    ELSE IF rec = NoDoc THEN Reject(NotFound)
    ELSE IF ~_can_update_did(rec, auth) THEN Reject(Unauthorized)
    ELSE IF compare_eth_addresses(rec.owner, newOwner) THEN Reject(Validation)
    ELSE Out(Ok200, Eff("update", did,
                [rec EXCEPT !.owner = newOwner, !.updated = get_timestamp(clock)]))

----------------------------------------------------------------------------
(* update_ratings: PUT /ddo/ratings/update/<did> *)

\* Ratings are counted in thousandths. A rating request carries a number
\* (int or float) or something that is no number.
Num(k, v) == [kind |-> k, v |-> v]

\* The decimals d.d5 of [0, 5] whose nearest double lies below them.
TiesBelow == {150, 350, 850, 950, 1150, 1450, 1650, 1950, 2050, 2150, 2550,
              2650, 3050, 3150, 3550, 3650, 4050, 4350, 4550, 4850}

\* (mutant) the nearest tenth of the double nearest to x, an exact half going
\* up.
round1HalfUp(x) ==
    IF x.kind = "int" THEN x.v
    ELSE LET q == x.v \div 100
             r == x.v % 100
         IN  IF r < 50 THEN q * 100
             ELSE IF r > 50 THEN (q + 1) * 100
             ELSE IF x.v \in TiesBelow THEN q * 100
             ELSE (q + 1) * 100

\* round(x, 1) of Python, on thousandths: the nearest tenth of the double
\* nearest to x, an exact half going to the even tenth; an int is unchanged.
round1(x) ==
    IF x.kind = "int" THEN x.v
    ELSE LET q == x.v \div 100
             r == x.v % 100
         IN  IF r < 50 THEN q * 100
             ELSE IF r > 50 THEN (q + 1) * 100
             ELSE IF x.v % 250 = 0 THEN (IF q % 2 = 0 THEN q ELSE q + 1) * 100
             ELSE IF x.v \in TiesBelow THEN q * 100
             ELSE (q + 1) * 100

\* (mutant) a rated metadata service is taken off the listing.
SetRatingsUnlist(services, rating, numVotes) ==
    [k \in 1..Len(services) |->
        IF services[k].type = "metadata"
        THEN [services[k] EXCEPT !.cur.rating = round1(rating),
                                 !.cur.numVotes = numVotes.v,
                                 !.cur.isListed = FALSE]
        ELSE services[k]]

\* The loop of update_ratings: rating and numVotes of every metadata service.
SetRatings(services, rating, numVotes) ==
    [k \in 1..Len(services) |->
        IF services[k].type = "metadata"
        THEN [services[k] EXCEPT !.cur.rating = round1(rating),
                                 !.cur.numVotes = numVotes.v]
        ELSE services[k]]

\* A metadata service without attributes.curation: the loop raises KeyError.
RatingsKeyError(services) ==
    \E k \in 1..Len(services) :
        services[k].type = "metadata" /\ ~services[k].cur.present

\* (mutant) the owner of the document may rate it too.
update_ratingsOwnerToo(st, clock, did, auth, rating, numVotes) ==
    LET rec == daoGet(st, did) IN
    IF ~auth.present THEN Reject(Validation)
    ELSE IF rating.kind \notin {"int", "float"} THEN Reject(Validation)
    ELSE IF numVotes.kind # "int" THEN Reject(Validation)
    ELSE IF rec = NoDoc THEN Reject(NotFound)
    ELSE IF /\ ~_can_update_did_from_allowed_updaters(rec, auth)
            /\ ~_can_update_did(rec, auth) THEN Reject(Unauthorized)
    ELSE IF RatingsKeyError(rec.service) THEN Reject(Internal)
    ELSE Out(Ok200, Eff("update", did,
                [rec EXCEPT !.updated = get_timestamp(clock),
                            !.service = SetRatings(rec.service, rating, numVotes)]))

\* (mutant) a DID without a document is answered like a signer that is not
\* allowed.
update_ratingsNoLookup(st, clock, did, auth, rating, numVotes) ==
    LET rec == daoGet(st, did) IN
    IF ~auth.present THEN Reject(Validation)
    ELSE IF rating.kind \notin {"int", "float"} THEN Reject(Validation)
    ELSE IF numVotes.kind # "int" THEN Reject(Validation)
    ELSE IF rec = NoDoc THEN Reject(Unauthorized)
    ELSE IF ~_can_update_did_from_allowed_updaters(rec, auth) THEN Reject(Unauthorized)
    ELSE IF RatingsKeyError(rec.service) THEN Reject(Internal)
    ELSE Out(Ok200, Eff("update", did,
                [rec EXCEPT !.updated = get_timestamp(clock),
                            !.service = SetRatings(rec.service, rating, numVotes)]))

update_ratings(st, clock, did, auth, rating, numVotes) ==
    LET rec == daoGet(st, did) IN
    IF ~auth.present THEN Reject(Validation)
    ELSE IF rating.kind \notin {"int", "float"} THEN Reject(Validation)
    ELSE IF numVotes.kind # "int" THEN Reject(Validation)
    ELSE IF rec = NoDoc THEN Reject(NotFound)
    ELSE IF ~_can_update_did_from_allowed_updaters(rec, auth) THEN Reject(Unauthorized)
    ELSE IF RatingsKeyError(rec.service) THEN Reject(Internal)
    ELSE Out(Ok200, Eff("update", did,
                [rec EXCEPT !.updated = get_timestamp(clock),
                            !.service = SetRatings(rec.service, rating, numVotes)]))

----------------------------------------------------------------------------
(* add_access_white_list, delete_access_white_list *)

\* list.count(x)
count(items, x) == Cardinality({k \in 1..Len(items) : items[k] = x})

\* list.append(x)
append(items, x) == items \o <<x>>

FirstIdx(items, x) ==
    CHOOSE k \in 1..Len(items) :
        items[k] = x /\ \A j \in 1..(k - 1) : items[j] # x

\* (mutant) the head of the list is dropped, whatever x is.
removeHead(items, x) == Tail(items)

\* list.remove(x): the list without the first occurrence of x.
remove(items, x) ==
    SubSeq(items, 1, FirstIdx(items, x) - 1)
        \o SubSeq(items, FirstIdx(items, x) + 1, Len(items))

\* (mutant) no look for the address in the list before it is appended.
add_access_white_listNoCheck(st, clock, did, auth, address) ==
    LET rec == daoGet(st, did) IN
    IF ~auth.present THEN Reject(Validation)
    ELSE IF ~isAddress(address) THEN Reject(Validation)
    ELSE IF rec = NoDoc THEN Reject(NotFound)
    ELSE IF ~_can_update_did(rec, auth) THEN Reject(Unauthorized)
    ELSE IF rec.wl.kind # "list" THEN Reject(Internal)
    ELSE Out(Ok200, Eff("update", did,
                [rec EXCEPT !.wl = WL(append(rec.wl.items, address)),
                            !.updated = get_timestamp(clock)]))

add_access_white_list(st, clock, did, auth, address) ==
    LET rec == daoGet(st, did) IN
    IF ~auth.present THEN Reject(Validation)
    ELSE IF ~isAddress(address) THEN Reject(Validation)
    ELSE IF rec = NoDoc THEN Reject(NotFound)
    ELSE IF ~_can_update_did(rec, auth) THEN Reject(Unauthorized)
    ELSE IF rec.wl.kind # "list" THEN Reject(Internal)
    ELSE IF count(rec.wl.items, address) > 0 THEN Reject(Conflict)
    ELSE Out(Ok200, Eff("update", did,
                [rec EXCEPT !.wl = WL(append(rec.wl.items, address)),
                            !.updated = get_timestamp(clock)]))

delete_access_white_list(st, clock, did, auth, address) ==
    LET rec == daoGet(st, did) IN
    IF ~auth.present THEN Reject(Validation)
    ELSE IF ~isAddress(address) THEN Reject(Validation)
    ELSE IF rec = NoDoc THEN Reject(NotFound)
    ELSE IF ~_can_update_did(rec, auth) THEN Reject(Unauthorized)
    ELSE IF rec.wl.kind # "list" THEN Reject(Internal)
    ELSE IF count(rec.wl.items, address) < 1 THEN Reject(Conflict)
    ELSE Out(Ok200, Eff("update", did,
                [rec EXCEPT !.wl = WL(remove(rec.wl.items, address)),
                            !.updated = get_timestamp(clock)]))

----------------------------------------------------------------------------
(* retire: DELETE /ddo/<did>;  retire_all: DELETE /ddo *)

\* (mutant) the signature of a remote caller is not looked at.
retireNoGate(st, did, admin, auth) ==
    LET rec == daoGet(st, did) IN
    IF rec = NoDoc THEN Reject(NotFound)
    ELSE IF IsLocal(admin) THEN Out(Ok200, Eff("delete", did, NoDoc))
    ELSE IF ~auth.present THEN Reject(Validation)
    ELSE Out(Ok200, Eff("delete", did, NoDoc))

\* (mutant) only a local caller may delete; every other one is refused.
retireLocalOnly(st, did, admin, auth) ==
    LET rec == daoGet(st, did) IN
    IF rec = NoDoc THEN Reject(NotFound)
    ELSE IF IsLocal(admin) THEN Out(Ok200, Eff("delete", did, NoDoc))
    ELSE IF ~auth.present THEN Reject(Validation)
    ELSE Reject(Unauthorized)

\* (mutant) the document is deleted before the caller's signature is looked
\* at.
retireDeleteFirst(st, did, admin, auth) ==
    LET rec == daoGet(st, did) IN
    IF rec = NoDoc THEN Reject(NotFound)
    ELSE IF IsLocal(admin) THEN Out(Ok200, Eff("delete", did, NoDoc))
    ELSE IF ~auth.present THEN Out(Validation, Eff("delete", did, NoDoc))
    ELSE IF ~_can_update_did(rec, auth) THEN Out(Unauthorized, Eff("delete", did, NoDoc))
    ELSE Out(Ok200, Eff("delete", did, NoDoc))

retire(st, did, admin, auth) ==
    LET rec == daoGet(st, did) IN
    IF rec = NoDoc THEN Reject(NotFound)
    ELSE IF IsLocal(admin) THEN Out(Ok200, Eff("delete", did, NoDoc))
    ELSE IF ~auth.present THEN Reject(Validation)
    ELSE IF ~_can_update_did(rec, auth) THEN Reject(Unauthorized)
    ELSE Out(Ok200, Eff("delete", did, NoDoc))

\* (mutant) any caller may delete every document.
retire_allNoGate(st, admin) == Out(Ok200, Eff("deleteAll", "d1", NoDoc))

retire_all(st, admin) ==
    IF ~IsLocal(admin) THEN Reject(Unauthorized)
    ELSE Out(Ok200, Eff("deleteAll", "d1", NoDoc))

----------------------------------------------------------------------------
(* update_metadata: PUT /ddo/metadata/update/<did> *)

\* An optional field of the request body: absent, of the expected type
\* ("str", "list"), or of another type.
Field(k, v) == [kind |-> k, v |-> v]
Absent == Field("absent", "")
AbsentList == Field("absent", <<>>)

\* A link of the request: "ok" has name, url and type, all strings; "nonstr"
\* has a name that is no string; "missing" has a string name and no url.
Link(n, shape) == [name |-> n, shape |-> shape]

\* An entry of servicePrices; keys is FALSE when serviceIndex or price is
\* not in it.
PriceEntry(i, p, keys) == [serviceIndex |-> i, price |-> p, keys |-> keys]

RECURSIVE new_links(_, _)
\* The links kept by the loop over data['links'], from entry k on.
new_links(items, k) ==
    IF k > Len(items) THEN <<>>
    ELSE IF items[k].shape = "ok" THEN <<items[k]>> \o new_links(items, k + 1)
    ELSE new_links(items, k + 1)

RECURSIVE PriceAt(_, _, _, _)
\* The price of the service at list position index after the entries k.. of
\* servicePrices were applied to it.
PriceAt(cur, index, items, k) ==
    IF k > Len(items) THEN cur
    ELSE IF /\ items[k].serviceIndex.kind = "int"
            /\ items[k].price.kind = "str"
            /\ items[k].serviceIndex.v = index
         THEN PriceAt(items[k].price.v, index, items, k + 1)
         ELSE PriceAt(cur, index, items, k + 1)

\* The loop of update_metadata over the services, index being the list
\* position counted from 0.
MetadataLoop(services, mu) ==
    [k \in 1..Len(services) |->
        LET s0 == services[k]
            s1 == IF s0.type = "metadata" /\ mu.title.kind = "str"
                  THEN [s0 EXCEPT !.name = mu.title.v] ELSE s0
            s2 == IF s0.type = "metadata" /\ mu.description.kind = "str"
                  THEN [s1 EXCEPT !.desc = mu.description.v] ELSE s1
            s3 == IF /\ s0.type = "metadata"
                     /\ mu.links.kind = "list"
                     /\ Len(new_links(mu.links.v, 1)) > 0
                  THEN [s2 EXCEPT !.links = new_links(mu.links.v, 1)] ELSE s2
        IN  IF mu.servicePrices.kind = "list" /\ s0.main
            THEN [s3 EXCEPT !.price = PriceAt(s3.price, k - 1, mu.servicePrices.v, 1)]
            ELSE s3]

\* A subscript of the loop raises KeyError: a link without url, reached in a
\* metadata service, or a servicePrices entry without its keys.
MetadataKeyError(services, mu) ==
    \/ /\ HasMetadata(services)
       /\ mu.links.kind = "list"
       /\ \E k \in 1..Len(mu.links.v) : mu.links.v[k].shape = "missing"
    \/ /\ Len(services) > 0
       /\ mu.servicePrices.kind = "list"
       /\ \E k \in 1..Len(mu.servicePrices.v) : ~mu.servicePrices.v[k].keys

\* (mutant) a pair is refused once the document has been updated after its
\* registration.
update_metadataOnce(st, clock, did, auth, mu) ==
    LET rec == daoGet(st, did) IN
    IF ~auth.present THEN Reject(Validation)
    ELSE IF rec = NoDoc THEN Reject(NotFound)
    ELSE IF ~_can_update_did(rec, auth) THEN Reject(Unauthorized)
    ELSE IF rec.updated # rec.created THEN Reject(Unauthorized)
    ELSE IF MetadataKeyError(rec.service, mu) THEN Reject(Internal)
    ELSE Out(Ok200, Eff("update", did,
                [rec EXCEPT !.updated = get_timestamp(clock),
                            !.service = MetadataLoop(rec.service, mu)]))

update_metadata(st, clock, did, auth, mu) ==
    LET rec == daoGet(st, did) IN
    IF ~auth.present THEN Reject(Validation)
    ELSE IF rec = NoDoc THEN Reject(NotFound)
    ELSE IF ~_can_update_did(rec, auth) THEN Reject(Unauthorized)
    ELSE IF MetadataKeyError(rec.service, mu) THEN Reject(Internal)
    ELSE Out(Ok200, Eff("update", did,
                [rec EXCEPT !.updated = get_timestamp(clock),
                            !.service = MetadataLoop(rec.service, mu)]))

----------------------------------------------------------------------------
(* Request inputs *)

ALo == Addr("A", "lo")
ACk == Addr("A", "ck")
BLo == Addr("B", "lo")

\* No pair; a pair signed by the account A, B or U; a pair whose signature
\* was made over another text.
AuthInputs ==
    {NoAuth, Auth("m1", Sig("m1", "A")), Auth("m2", Sig("m2", "B")),
     Auth("m1", Sig("m1", "U")), Auth("m2", Sig("m1", "A"))}

\* updated and signature as a FullUpdate body may carry them.
UpdateAuths == {NoAuth, Auth("m1", Sig("m1", "A")), Auth("m2", Sig("m2", "B"))}

SvcBase == <<Other("access", 1, TRUE), Meta(0, NoCur)>>

PBase(i) == Payload(i, TS(0, "canon"), ALo, WLAbsent, SvcBase, "none")

CreatedInputs ==
    {TS(v, f) : v \in Times, f \in {"canon", "loose"}} \cup {TS(0, "bad")}

WLInputs ==
    {WLAbsent, WLScalar, WL(<<>>), WL(<<BLo>>), WL(<<ALo, ALo>>), WL(<<ACk, ALo>>)}

ServiceInputs ==
    { <<Meta(0, NoCur)>>,
      <<Other("access", 3, FALSE), Meta(0, Cur(4200, 7, FALSE)), Other("compute", 1, TRUE)>>,
      <<Other("access", 0, TRUE)>>,
      <<MetaPriced(0, NoCur, "5"), Other("access", 1, TRUE)>>,
      <<Meta(0, NoCur), Other("access", 1, TRUE), Meta(2, Cur(100, 1, TRUE))>> }

\* Payloads that differ in the owner, or fail the schema.
PayloadsAuth ==
    {PBase("d1"), [PBase("d1") EXCEPT !.owner = BLo],
     [PBase("d1") EXCEPT !.defect = "schema"]}

\* Payloads that differ in created, the whitelist, the services and defects.
PayloadsDoc ==
    {[PBase("d1") EXCEPT !.created = c] : c \in CreatedInputs}
        \cup {[PBase("d1") EXCEPT !.wl = w] : w \in WLInputs}
        \cup {[PBase("d1") EXCEPT !.service = s, !.owner = BLo] : s \in ServiceInputs}
        \cup {[PBase("d1") EXCEPT !.defect = x] : x \in {"missing", "url", "schema"}}

\* Payloads that differ in the whitelist.
PayloadsWL == {[PBase("d1") EXCEPT !.wl = w] : w \in WLInputs}

NoNum == Num("none", 0)
NoMU == [title |-> Absent, description |-> Absent, links |-> AbsentList,
         servicePrices |-> AbsentList]
MetaInputsAuth ==
    { [NoMU EXCEPT !.title = Field("str", "n1"), !.description = Field("other", "")],
      [NoMU EXCEPT !.links = Field("list", <<Link("l1", "ok"), Link("l2", "missing")>>)] }

----------------------------------------------------------------------------
(* State machine: one request at a time *)

\* The record kept of a request: what was asked, by whom, and the answer.
\* wlPre is the whitelist the addressed document had when a whitelist request
\* came in; repeat tells that the request names the DID and the address of a
\* WhitelistAdd that succeeded right before it; seq alternates from one
\* request to the next. mu is the body of a PartialMetadataUpdate, rating and
\* numVotes are those of a RateUpdate.
EvRec(op, did, admin, auth, addr, payload, wlPre, repeat, seq) ==
    [op |-> op, did |-> did, admin |-> admin, auth |-> auth, addr |-> addr,
     payload |-> payload, wlPre |-> wlPre, repeat |-> repeat, seq |-> seq,
     mu |-> NoMU, rating |-> NoNum, numVotes |-> NoNum,
     resp |-> Ok200]

NoPayload == Payload("none", TS(0, "canon"), NoAddr, WLAbsent, <<>>, "none")
NoEv == EvRec("none", "d1", FALSE, NoAuth, NoAddr, NoPayload, WLAbsent, FALSE, 0)

Ev(op, did, admin, auth, addr, payload, wlPre) ==
    EvRec(op, did, admin, auth, addr, payload, wlPre,
          /\ last.op = "WhitelistAdd"
          /\ last.resp = Ok200
          /\ last.did = did
          /\ last.addr = addr,
          1 - last.seq)

WlOf(st, did) == IF st[did] = NoDoc THEN WLAbsent ELSE st[did].wl

Init ==
    /\ store = [d \in DIDs |-> NoDoc]
    /\ now = 0
    /\ last = NoEv
    /\ inflight = {}
    /\ freeOnly \in BOOLEAN

\* A marketplace that takes priced assets.
InitPriced == Init /\ ~freeOnly

\* The response of a handler that ran to its end: 500 when its write raised.
Answer(st, ev, out) ==
    [ev EXCEPT !.resp = IF EffFails(st, out.eff) THEN Internal ELSE out.resp]

Tick ==
    /\ now < MaxTime
    /\ now' = now + 1
    /\ UNCHANGED <<store, last, inflight, freeOnly>>

Create(PS) ==
    \E p \in PS :
        LET out == register(store, freeOnly, p)
            ev == Ev("Create", p.id, FALSE, NoAuth, NoAddr, p, WLAbsent)
        IN  /\ store' = ApplyEff(store, out.eff)
            /\ last' = Answer(store, ev, out)
            /\ UNCHANGED <<now, inflight, freeOnly>>

FullUpdate(D, PS) ==
    \E d \in D, admin \in BOOLEAN, auth \in UpdateAuths, p \in PS :
        LET out == update(store, freeOnly, d, admin, p)
            ev == Ev("FullUpdate", d, admin, auth, NoAddr, p, WLAbsent)
        IN  /\ store' = ApplyEff(store, out.eff)
            /\ last' = Answer(store, ev, out)
            /\ UNCHANGED <<now, inflight, freeOnly>>

TransferOwnership(D, AS) ==
    \E d \in D, auth \in AuthInputs, a \in AS :
        LET out == transfer_ownership(store, now, d, auth, a)
            ev == Ev("TransferOwnership", d, FALSE, auth, a, NoPayload, WLAbsent)
        IN  /\ store' = ApplyEff(store, out.eff)
            /\ last' = Answer(store, ev, out)
            /\ UNCHANGED <<now, inflight, freeOnly>>

RateUpdate(D, RS, NS) ==
    \E d \in D, auth \in AuthInputs, r \in RS, n \in NS :
        LET out == update_ratings(store, now, d, auth, r, n)
            ev == [Ev("RateUpdate", d, FALSE, auth, NoAddr, NoPayload, WLAbsent)
                      EXCEPT !.rating = r, !.numVotes = n]
        IN  /\ store' = ApplyEff(store, out.eff)
            /\ last' = Answer(store, ev, out)
            /\ UNCHANGED <<now, inflight, freeOnly>>

WhitelistAdd(D, AS) ==
    \E d \in D, auth \in AuthInputs, a \in AS :
        LET out == add_access_white_list(store, now, d, auth, a)
            ev == Ev("WhitelistAdd", d, FALSE, auth, a, NoPayload, WlOf(store, d))
        IN  /\ out.eff.kind = "update" => Len(WlOf(store, d).items) < MaxWL
            /\ store' = ApplyEff(store, out.eff)
            /\ last' = Answer(store, ev, out)
            /\ UNCHANGED <<now, inflight, freeOnly>>

WhitelistRemove(D, AS) ==
    \E d \in D, auth \in AuthInputs, a \in AS :
        LET out == delete_access_white_list(store, now, d, auth, a)
            ev == Ev("WhitelistRemove", d, FALSE, auth, a, NoPayload, WlOf(store, d))
        IN  /\ store' = ApplyEff(store, out.eff)
            /\ last' = Answer(store, ev, out)
            /\ UNCHANGED <<now, inflight, freeOnly>>

PartialMetadataUpdate(D, MS) ==
    \E d \in D, auth \in AuthInputs, mu \in MS :
        LET out == update_metadata(store, now, d, auth, mu)
            ev == [Ev("PartialMetadataUpdate", d, FALSE, auth, NoAddr, NoPayload, WLAbsent)
                      EXCEPT !.mu = mu]
        IN  /\ store' = ApplyEff(store, out.eff)
            /\ last' = Answer(store, ev, out)
            /\ UNCHANGED <<now, inflight, freeOnly>>

GetMetadata(D) ==
    \E d \in D :
        LET out == get_metadata(store, d)
            ev == Ev("GetMetadata", d, FALSE, NoAuth, NoAddr, NoPayload, WLAbsent)
        IN  /\ store' = ApplyEff(store, out.eff)
            /\ last' = Answer(store, ev, out)
            /\ UNCHANGED <<now, inflight, freeOnly>>

Retire(D) ==
    \E d \in D, admin \in BOOLEAN, auth \in AuthInputs :
        LET out == retire(store, d, admin, auth)
            ev == Ev("Retire", d, admin, auth, NoAddr, NoPayload, WLAbsent)
        IN  /\ store' = ApplyEff(store, out.eff)
            /\ last' = Answer(store, ev, out)
            /\ UNCHANGED <<now, inflight, freeOnly>>

RetireAll ==
    \E admin \in BOOLEAN :
        LET out == retire_all(store, admin)
            ev == Ev("RetireAll", "d1", admin, NoAuth, NoAddr, NoPayload, WLAbsent)
        IN  /\ store' = ApplyEff(store, out.eff)
            /\ last' = Answer(store, ev, out)
            /\ UNCHANGED <<now, inflight, freeOnly>>

\* Every operation, on one DID, with requests that differ in who signs them.
Next ==
    \/ Tick
    \/ Create(PayloadsAuth)
    \/ FullUpdate({"d1"}, PayloadsAuth)
    \/ TransferOwnership({"d1"}, {ACk, BLo, BadAddr})
    \/ RateUpdate({"d1"}, {Num("float", 2450), Num("str", 0)}, {Num("int", 2)})
    \/ WhitelistAdd({"d1"}, {BLo, BadAddr})
    \/ WhitelistRemove({"d1"}, {BLo, BadAddr})
    \/ PartialMetadataUpdate({"d1"}, MetaInputsAuth)
    \/ Retire({"d1"})
    \/ RetireAll

Spec == Init /\ [][Next]_vars

\* Create and FullUpdate with payloads of every shape.
NextDoc ==
    \/ Tick
    \/ Create(PayloadsDoc)
    \/ FullUpdate({"d1"}, PayloadsDoc)
    \/ Retire({"d1"})

SpecDoc == Init /\ [][NextDoc]_vars

\* The whitelist operations, with addresses in either casing.
NextWL ==
    \/ Tick
    \/ Create(PayloadsWL)
    \/ FullUpdate({"d1"}, PayloadsWL)
    \/ WhitelistAdd({"d1"}, ReqAddrs)
    \/ WhitelistRemove({"d1"}, ReqAddrs)
    \/ TransferOwnership({"d1"}, {BLo})
    \/ Retire({"d1"})

SpecWL == InitPriced /\ [][NextWL]_vars

\* Payloads that differ in the DID they name.
PayloadsTwo == {PBase("d1"), PBase("d2")}

\* Registration, replacement, transfer and deletion, on two DIDs.
NextLife ==
    \/ Tick
    \/ Create(PayloadsTwo)
    \/ FullUpdate(DIDs, PayloadsTwo)
    \/ TransferOwnership(DIDs, {BLo})
    \/ Retire(DIDs)
    \/ RetireAll

SpecLife == InitPriced /\ [][NextLife]_vars

\* Ratings a RateUpdate may carry: floats below a tie, at a decimal tie, at
\* a tie that is exact in binary and above the range, and an int.
RatingInputs ==
    {Num("float", 2449), Num("float", 2450), Num("float", 250),
     Num("float", 7300), Num("int", 3000)}

\* numVotes a RateUpdate may carry.
VoteInputs == {Num("int", 2), Num("int", 1), Num("int", -1)}

\* Payloads that differ in created and in the curation they carry.
PayloadsRate ==
    {PBase("d1"),
     [PBase("d1") EXCEPT !.created = TS(MaxTime, "loose")],
     [PBase("d1") EXCEPT !.service = <<Meta(0, Cur(4200, 7, FALSE))>>]}

\* Ratings: registration, replacement and RateUpdate with numbers of every kind.
NextRate ==
    \/ Tick
    \/ Create(PayloadsRate)
    \/ FullUpdate({"d1"}, PayloadsRate)
    \/ RateUpdate({"d1"}, RatingInputs, VoteInputs)
    \/ Retire({"d1"})

SpecRate == InitPriced /\ [][NextRate]_vars

\* Payloads that differ in their services.
PayloadsSvc == {[PBase("d1") EXCEPT !.service = s] : s \in ServiceInputs}

\* Bodies of a PartialMetadataUpdate: a title, links of which one has a name
\* that is no string, a price for the service at position 1.
MetaInputsSvc ==
    { [NoMU EXCEPT !.title = Field("str", "n1")],
      [NoMU EXCEPT !.links = Field("list", <<Link("l1", "ok"), Link("l2", "nonstr")>>)],
      [NoMU EXCEPT !.servicePrices =
          Field("list", <<PriceEntry(Field("int", 1), Field("str", "9"), TRUE)>>)] }

\* The services: registration and replacement with service lists of every
\* shape, and the requests that write into the services in place.
NextSvc ==
    \/ Tick
    \/ Create(PayloadsSvc)
    \/ FullUpdate({"d1"}, PayloadsSvc)
    \/ PartialMetadataUpdate({"d1"}, MetaInputsSvc)
    \/ RateUpdate({"d1"}, {Num("float", 2449)}, {Num("int", 2)})
    \/ Retire({"d1"})

SpecSvc == InitPriced /\ [][NextSvc]_vars

\* A payload whose metadata service carries a curation.
PCur(i) ==
    [PBase(i) EXCEPT !.service = <<Other("access", 1, TRUE), Meta(0, Cur(0, 0, TRUE))>>]

\* Payloads without a defect, with and without a curation; payloads with one
\* defect each, and one with two: no metadata service and a created that
\* does not parse.
PayloadsErr ==
    {PCur("d1"), PBase("d1"),
     [PCur("d1") EXCEPT !.created = TS(0, "bad")],
     [PCur("d1") EXCEPT !.service = <<Other("access", 1, TRUE)>>, !.created = TS(0, "bad")]}
        \cup {[PCur("d1") EXCEPT !.defect = x] : x \in {"missing", "url", "schema"}}

\* Requests that fail: every operation on one DID, Registered or not, with
\* bodies that lack fields, name no address or carry no number.
NextErr ==
    \/ Tick
    \/ Create(PayloadsErr)
    \/ FullUpdate({"d1"}, PayloadsErr)
    \/ GetMetadata({"d1"})
    \/ TransferOwnership({"d1"}, {BLo, BadAddr})
    \/ RateUpdate({"d1"}, {Num("float", 2449), Num("str", 0)}, {Num("int", 2)})
    \/ WhitelistAdd({"d1"}, {BLo, BadAddr})
    \/ WhitelistRemove({"d1"}, {BLo, BadAddr})
    \/ PartialMetadataUpdate({"d1"}, {[NoMU EXCEPT !.title = Field("str", "n1")]})
    \/ Retire({"d1"})

SpecErr == InitPriced /\ [][NextErr]_vars

\* Every list of one to MaxSvc services, each a metadata or an access
\* service, with its position in the payload as its index.
ServiceLists ==
    UNION { { [k \in 1..n |->
                IF f[k] = "metadata" THEN Meta(k, NoCur) ELSE Other(f[k], k, TRUE)] :
              f \in [1..n -> {"metadata", "access"}] } :
            n \in 1..MaxSvc }

PayloadsOrder == {[PBase("d1") EXCEPT !.service = s] : s \in ServiceLists}

\* Registration and replacement with every list of services.
NextOrder ==
    \/ Create(PayloadsOrder)
    \/ FullUpdate({"d1"}, PayloadsOrder)
    \/ Retire({"d1"})

SpecOrder == InitPriced /\ [][NextOrder]_vars

\* A payload with two metadata services and an access service.
PayloadsFrame ==
    {[PBase("d1") EXCEPT !.service =
         <<Other("access", 1, TRUE), Meta(0, NoCur), Meta(2, NoCur)>>]}

\* Bodies of a PartialMetadataUpdate that write one field, or all of them.
MetaInputsFrame ==
    { [NoMU EXCEPT !.title = Field("str", "n1")],
      [title |-> Field("str", "n1"),
       description |-> Field("str", "x1"),
       links |-> Field("list", <<Link("l1", "ok")>>),
       servicePrices |->
          Field("list", <<PriceEntry(Field("int", 0), Field("str", "9"), TRUE),
                          PriceEntry(Field("int", 2), Field("str", "7"), TRUE)>>)] }

\* The operations that write into a stored document in place.
NextFrame ==
    \/ Tick
    \/ Create(PayloadsFrame)
    \/ TransferOwnership({"d1"}, {ALo, BLo})
    \/ RateUpdate({"d1"}, {Num("float", 2449)}, {Num("int", 2)})
    \/ WhitelistAdd({"d1"}, {BLo})
    \/ WhitelistRemove({"d1"}, {BLo})
    \/ PartialMetadataUpdate({"d1"}, MetaInputsFrame)
    \/ Retire({"d1"})

SpecFrame == InitPriced /\ [][NextFrame]_vars

\* Payloads that differ in how created and dateCreated are written.
PayloadsDate ==
    {[PBase("d1") EXCEPT !.created = c] : c \in CreatedInputs}
        \cup {[PBase("d1") EXCEPT !.defect = "date"],
              [PBase("d1") EXCEPT !.defect = "date", !.created = TS(0, "bad")]}

\* Timestamps: registration and replacement with texts of every form.
NextDate ==
    \/ Tick
    \/ Create(PayloadsDate)
    \/ FullUpdate({"d1"}, PayloadsDate)
    \/ Retire({"d1"})

SpecDate == Init /\ [][NextDate]_vars

\* A marketplace that takes free assets only.
InitFree == Init /\ freeOnly

\* Payloads with a free and with a priced metadata service.
PayloadsFree ==
    {PBase("d1"),
     [PBase("d1") EXCEPT !.service = <<MetaPriced(0, NoCur, "5"), Other("access", 1, TRUE)>>]}

\* Bodies of a PartialMetadataUpdate: a title, a price for the service at
\* position 0, a price of "0" for it.
MetaInputsFree ==
    { [NoMU EXCEPT !.title = Field("str", "n1")],
      [NoMU EXCEPT !.servicePrices =
          Field("list", <<PriceEntry(Field("int", 0), Field("str", "9"), TRUE)>>)],
      [NoMU EXCEPT !.servicePrices =
          Field("list", <<PriceEntry(Field("int", 0), Field("str", "0"), TRUE)>>)] }

\* Prices in a marketplace of free assets.
NextFree ==
    \/ Tick
    \/ Create(PayloadsFree)
    \/ FullUpdate({"d1"}, PayloadsFree)
    \/ PartialMetadataUpdate({"d1"}, MetaInputsFree)
    \/ Retire({"d1"})

SpecFree == InitFree /\ [][NextFree]_vars

----------------------------------------------------------------------------
(* State machine: requests that overlap *)

\* A request between its dao.get and its write, or after it. base is the
\* `updated` of the document it read, out what its handler computed from that
\* document, raced the slots of the requests that had read and not yet
\* written when this one wrote, or the other way round.
Req(slot, op, did, addr, base, out) ==
    [slot |-> slot, op |-> op, did |-> did, addr |-> addr, base |-> base,
     out |-> out, phase |-> IF out.eff.kind = "none" THEN "done" ELSE "read",
     resp |-> out.resp, raced |-> {}]

NoTS == TS(0, "none")
BaseOf(st, did) == IF st[did] = NoDoc THEN NoTS ELSE st[did].updated

FreeSlots == (1..MaxInflight) \ {r.slot : r \in inflight}

BeginFullUpdate(D, PS) ==
    \E d \in D, p \in PS, k \in FreeSlots :
        /\ \A j \in FreeSlots : k <= j
        /\ inflight' = inflight \cup
              {Req(k, "FullUpdate", d, NoAddr, BaseOf(store, d), update(store, freeOnly, d, TRUE, p))}
        /\ UNCHANGED <<store, now, last, freeOnly>>

BeginRateUpdate(D, RS, NS) ==
    \E d \in D, auth \in AuthInputs, r \in RS, n \in NS, k \in FreeSlots :
        /\ \A j \in FreeSlots : k <= j
        /\ inflight' = inflight \cup
              {Req(k, "RateUpdate", d, NoAddr, BaseOf(store, d),
                   update_ratings(store, now, d, auth, r, n))}
        /\ UNCHANGED <<store, now, last, freeOnly>>

BeginWhitelistAdd(D, AS) ==
    \E d \in D, auth \in AuthInputs, a \in AS, k \in FreeSlots :
        /\ \A j \in FreeSlots : k <= j
        /\ Len(WlOf(store, d).items) < MaxWL
        /\ inflight' = inflight \cup
              {Req(k, "WhitelistAdd", d, a, BaseOf(store, d),
                   add_access_white_list(store, now, d, auth, a))}
        /\ UNCHANGED <<store, now, last, freeOnly>>

\* The write of a request that has read: dao.update (or dao.register) as the
\* handler calls it, with the record computed from what it read.
Commit ==
    \E r \in inflight :
        LET others == {q \in inflight : q # r /\ q.phase = "read" /\ q.did = r.did}
        IN  /\ r.phase = "read"
            /\ store' = ApplyEff(store, r.out.eff)
            /\ inflight' =
                  {[q EXCEPT !.raced = IF q \in others THEN @ \cup {r.slot} ELSE @] :
                        q \in inflight \ {r}}
                  \cup {[r EXCEPT !.phase = "done",
                                  !.resp = IF EffFails(store, r.out.eff)
                                           THEN Internal ELSE r.out.resp,
                                  !.raced = @ \cup {q.slot : q \in others}]}
            /\ UNCHANGED <<now, last, freeOnly>>

NextConc ==
    \/ Tick
    \/ Create(PayloadsAuth)
    \/ BeginFullUpdate({"d1"}, PayloadsAuth)
    \/ BeginRateUpdate({"d1"}, {Num("float", 2450)}, {Num("int", 2)})
    \/ BeginWhitelistAdd({"d1"}, {ACk, BLo})
    \/ Commit

SpecConc == InitPriced /\ [][NextConc]_vars

----------------------------------------------------------------------------
(* Properties *)

\* The signer recovered from the pair a request carries.
SignerOf(ev) == recoverSigner(ev.auth.updated, ev.auth.sig)

\* The request just handled (last') came with a pair whose signer is, or is
\* not, the owner stored when it came in.
SignedByOwner(ev, st) ==
    ev.auth.present /\ compare_eth_addresses(SignerOf(ev), st[ev.did].owner)
SignedByOther(ev, st) ==
    ev.auth.present /\ ~compare_eth_addresses(SignerOf(ev), st[ev.did].owner)

Handled(op) == last'.seq # last.seq /\ last'.op = op

OwnerGatedOps ==
    {"TransferOwnership", "WhitelistAdd", "WhitelistRemove",
     "PartialMetadataUpdate", "Retire"}

\* C1 as stated: an owner-gated request (TransferOwnership, WhitelistAdd,
\* WhitelistRemove, PartialMetadataUpdate, Retire without administrative
\* capability) on a Registered DID whose pair is not signed by the stored
\* owner is answered 401 and leaves the store as it was.
C1_NotOwnerIs401 ==
    [][ \A op \in OwnerGatedOps :
          ( /\ Handled(op)
            /\ store[last'.did] # NoDoc
            /\ ~last'.admin
            /\ SignedByOther(last', store) )
          => (last'.resp = Unauthorized /\ store' = store) ]_vars

\* C1 amended: the same, for a request whose address argument (newOwner,
\* address) is syntactically an address; a request that names no valid
\* address is answered 400 before the signature is looked at. Either way the
\* store is left as it was.
C1_NotOwnerIs401WhenWellFormed ==
    [][ \A op \in OwnerGatedOps :
          ( /\ Handled(op)
            /\ store[last'.did] # NoDoc
            /\ ~last'.admin
            /\ SignedByOther(last', store) )
          => /\ store' = store
             /\ IF op \in {"TransferOwnership", "WhitelistAdd", "WhitelistRemove"}
                   /\ ~isAddress(last'.addr)
                THEN last'.resp = Validation
                ELSE last'.resp = Unauthorized ]_vars

\* A remote Retire signed by someone else than the owner was answered 401 and
\* the document is still stored.
C1_Witness ==
    /\ last.op = "Retire"
    /\ ~last.admin
    /\ store[last.did] # NoDoc
    /\ SignedByOther(last, store)
    /\ last.resp = Unauthorized

\* C2 as stated: a FullUpdate on a Registered DID whose updated and signature
\* do not recover to the stored owner never mutates the store and is not
\* answered with success.
C2_FullUpdateOwnerGated ==
    [][ ( /\ Handled("FullUpdate")
          /\ store[last'.did] # NoDoc
          /\ SignedByOther(last', store) )
        => (store' = store /\ last'.resp.code \notin {200, 201}) ]_vars

\* C10: a TransferOwnership signed by the owner whose newOwner is the stored
\* owner, in whatever casing, is answered with a validation error and leaves
\* the stored document, updated included, as it was.
C10_TransferToSelfRejected ==
    [][ ( /\ Handled("TransferOwnership")
          /\ store[last'.did] # NoDoc
          /\ SignedByOwner(last', store)
          /\ compare_eth_addresses(last'.addr, store[last'.did].owner) )
        => (last'.resp = Validation /\ store' = store) ]_vars

\* The owner asked to transfer to the own address written in another casing,
\* at a time later than the stored updated, and got a validation error.
C10_Witness ==
    /\ last.op = "TransferOwnership"
    /\ store[last.did] # NoDoc
    /\ SignedByOwner(last, store)
    /\ last.addr # store[last.did].owner
    /\ compare_eth_addresses(last.addr, store[last.did].owner)
    /\ store[last.did].updated.v < now
    /\ last.resp = Validation

\* C5: the document a Create stored has a metadata service at position 0 of
\* service, and its updated equals its created.
C5_CreateMetadataFirst ==
    [][ ( Handled("Create") /\ last'.resp = Ok201 )
        => LET doc == store'[last'.payload.id] IN
           /\ doc # NoDoc
           /\ Len(doc.service) = Len(last'.payload.service)
           /\ doc.service[1].type = "metadata"
           /\ doc.updated = doc.created ]_vars

\* A Create succeeded whose payload listed another service before the
\* metadata service.
C5_Witness ==
    /\ last.op = "Create"
    /\ last.resp = Ok201
    /\ last.payload.service[1].type # "metadata"
    /\ store[last.did] # NoDoc
    /\ store[last.did].service[1].type = "metadata"

\* C6: the document a Create stored has the whitelist [] when the payload
\* has no accesssWhiteList or one that is no list, the submitted list
\* otherwise, and every metadata service of it has the curation
\* {rating: 0, numVotes: 0, isListed: true}, whatever the payload carried.
C6_CreateDefaults ==
    [][ ( Handled("Create") /\ last'.resp = Ok201 )
        => LET doc == store'[last'.payload.id]
               p == last'.payload
           IN
           /\ doc # NoDoc
           /\ doc.wl.kind = "list"
           /\ p.wl.kind \in {"absent", "scalar"} => doc.wl.items = <<>>
           /\ p.wl.kind = "list" => doc.wl.items = p.wl.items
           /\ \A k \in 1..Len(doc.service) :
                 doc.service[k].type = "metadata"
                    => doc.service[k].cur = Cur(0, 0, TRUE) ]_vars

\* A Create succeeded whose payload carried a curation of its own.
C6_Witness ==
    /\ last.op = "Create"
    /\ last.resp = Ok201
    /\ \E k \in 1..Len(last.payload.service) :
          /\ last.payload.service[k].cur.present
          /\ last.payload.service[k].cur # Cur(0, 0, TRUE)
    /\ store[last.did] # NoDoc

\* A Create succeeded whose accesssWhiteList was not a list.
C6_WitnessNoList ==
    /\ last.op = "Create"
    /\ last.resp = Ok201
    /\ last.payload.wl.kind = "scalar"
    /\ store[last.did] # NoDoc

\* C7: a WhitelistAdd signed by the owner for an address that is valid and
\* not in the list succeeds and appends it; the same request right after it
\* is answered with a Conflict error and the whitelist stays as the first
\* request left it.
C7_SecondAddConflicts ==
    [][ ( /\ Handled("WhitelistAdd")
          /\ store[last'.did] # NoDoc
          /\ SignedByOwner(last', store)
          /\ store[last'.did].wl.kind = "list" )
        => /\ ( /\ isAddress(last'.addr)
                /\ \A k \in 1..Len(store[last'.did].wl.items) :
                       store[last'.did].wl.items[k] # last'.addr )
              => /\ last'.resp = Ok200
                 /\ store'[last'.did].wl.items
                       = store[last'.did].wl.items \o <<last'.addr>>
           /\ last'.repeat
              => /\ last'.resp = Conflict
                 /\ store' = store ]_vars

\* The owner repeated a WhitelistAdd that had just succeeded, and got a
\* Conflict error.
C7_Witness ==
    /\ last.op = "WhitelistAdd"
    /\ last.repeat
    /\ store[last.did] # NoDoc
    /\ SignedByOwner(last, store)
    /\ last.resp = Conflict
    /\ store[last.did].wl = last.wlPre

\* C8: a WhitelistRemove that succeeds right after a successful WhitelistAdd
\* of the same address leaves the whitelist as it was before the add.
C8_AddRemoveRoundTrip ==
    [][ ( /\ Handled("WhitelistRemove")
          /\ last'.repeat
          /\ last'.resp = Ok200 )
        => /\ last.op = "WhitelistAdd"
           /\ store'[last'.did] # NoDoc
           /\ store'[last'.did].wl = last.wlPre ]_vars

\* A WhitelistRemove succeeded right after the WhitelistAdd of its address,
\* on a whitelist that had other entries.
C8_Witness ==
    /\ last.op = "WhitelistRemove"
    /\ last.repeat
    /\ last.resp = Ok200
    /\ store[last.did] # NoDoc
    /\ Len(store[last.did].wl.items) > 0

\* C9 as stated: the whitelist of every stored document holds each address
\* at most once, addresses being compared irrespective of their casing.
C9_WhitelistNoDuplicates ==
    \A d \in DIDs :
        (store[d] # NoDoc /\ store[d].wl.kind = "list")
        => \A i, j \in 1..Len(store[d].wl.items) :
              i # j => ~compare_eth_addresses(store[d].wl.items[i], store[d].wl.items[j])

\* Two requests overlapped: each had read the document before the other
\* wrote, and both have written since.
Overlapped(r, q) ==
    /\ r.slot # q.slot
    /\ r.did = q.did
    /\ r.phase = "done" /\ q.phase = "done"
    /\ q.slot \in r.raced
    /\ r.base = q.base /\ r.base # NoTS

\* C3 as stated: of a FullUpdate and a RateUpdate on one DID that both read
\* the same stored updated before either wrote, exactly one succeeds and
\* the other is answered with a Conflict error.
C3_OneOfTwoConflicts ==
    \A r, q \in inflight :
        (r.op = "FullUpdate" /\ q.op = "RateUpdate" /\ Overlapped(r, q))
        => \/ (r.resp.code = 200 /\ q.resp = Conflict)
           \/ (q.resp.code = 200 /\ r.resp = Conflict)

\* C4 as stated: when two WhitelistAdd of different addresses on one DID
\* overlapped and both were answered with success, the stored whitelist
\* holds both addresses (no other request was made since they read).
C4_BothEffectsKept ==
    \A r, q \in inflight :
        ( /\ r.op = "WhitelistAdd" /\ q.op = "WhitelistAdd"
          /\ r.addr # q.addr
          /\ Overlapped(r, q)
          /\ r.resp = Ok200 /\ q.resp = Ok200
          /\ inflight = {r, q}
          /\ store[r.did] # NoDoc )
        => /\ count(store[r.did].wl.items, r.addr) > 0
           /\ count(store[r.did].wl.items, q.addr) > 0

\* C11 as stated: the owner of a Registered DID changes only in a step that
\* is a successful TransferOwnership on that DID; no other request on a DID
\* that stays Registered changes it.
C11_OwnerOnlyByTransfer ==
    [][ \A d \in DIDs :
          ( /\ store[d] # NoDoc
            /\ store'[d] # NoDoc
            /\ store'[d].owner # store[d].owner )
          => ( /\ Handled("TransferOwnership")
               /\ last'.did = d
               /\ last'.resp = Ok200 ) ]_vars

WellFormedLinks(links) == SelectSeq(links, LAMBDA l : l.shape = "ok")

\* C13 as stated: a PartialMetadataUpdate signed by the owner whose links
\* hold well-formed and malformed entries succeeds, and the links stored in
\* the metadata service are the well-formed entries in the order submitted.
C13_MalformedLinksDropped ==
    [][ ( /\ Handled("PartialMetadataUpdate")
          /\ store[last'.did] # NoDoc
          /\ SignedByOwner(last', store)
          /\ last'.mu.links.kind = "list"
          /\ \E k \in 1..Len(last'.mu.links.v) : last'.mu.links.v[k].shape = "ok"
          /\ \E k \in 1..Len(last'.mu.links.v) : last'.mu.links.v[k].shape # "ok" )
        => /\ last'.resp = Ok200
           /\ store'[last'.did] # NoDoc
           /\ \A k \in 1..Len(store'[last'.did].service) :
                 store'[last'.did].service[k].type = "metadata"
                 => store'[last'.did].service[k].links
                       = WellFormedLinks(last'.mu.links.v) ]_vars

\* The curation every metadata service of the document of the request just
\* handled has: P holds of each.
EveryCuration(P(_)) ==
    /\ store'[last'.did] # NoDoc
    /\ \A k \in 1..Len(store'[last'.did].service) :
          store'[last'.did].service[k].type = "metadata"
          => P(store'[last'.did].service[k].cur)

\* C14 as stated: a successful RateUpdate stores the rating rounded to one
\* decimal place, a half going up, and numVotes as submitted.
C14_RatingHalfUp ==
    [][ ( Handled("RateUpdate") /\ last'.resp = Ok200 )
        => EveryCuration(LAMBDA c :
              /\ c.rating = round1HalfUp(last'.rating)
              /\ c.numVotes = last'.numVotes.v) ]_vars

\* C14 amended: a successful RateUpdate stores a float rating as a tenth at
\* most 0.05 away from it, the even tenth when the rating lies exactly
\* halfway between two tenths (x.25, x.75); 2.449 is stored as 2.4 and 2.45
\* as 2.5; an int rating is stored as it is; numVotes is stored as submitted.
C14_RatingRoundHalfEven ==
    [][ ( Handled("RateUpdate") /\ last'.resp = Ok200 )
        => EveryCuration(LAMBDA c :
              LET x == last'.rating IN
              /\ c.numVotes = last'.numVotes.v
              /\ x.kind = "int" => c.rating = x.v
              /\ x.kind = "float"
                 => /\ c.rating % 100 = 0
                    /\ c.rating - x.v \in -50..50
                    /\ (x.v % 100 = 50 /\ x.v % 250 = 0)
                       => (c.rating \div 100) % 2 = 0
                    /\ x.v = 2449 => c.rating = 2400
                    /\ x.v = 2450 => c.rating = 2500) ]_vars

\* A RateUpdate with the rating 0.25 succeeded and 0.2 is stored.
C14_Witness ==
    /\ last.op = "RateUpdate"
    /\ last.resp = Ok200
    /\ last.rating = Num("float", 250)
    /\ store[last.did] # NoDoc
    /\ \E k \in 1..Len(store[last.did].service) :
          /\ store[last.did].service[k].type = "metadata"
          /\ store[last.did].service[k].cur.rating = 200

\* numVotes of the first metadata service of a stored document.
NumVotesOf(doc) == _get_metadata(doc.service).cur.numVotes

\* C15 as stated: in a step that is not a FullUpdate, the numVotes stored for
\* a DID that is and stays Registered does not decrease.
C15_NumVotesNeverDecrease ==
    [][ \A d \in DIDs :
          ( /\ store[d] # NoDoc
            /\ store'[d] # NoDoc
            /\ ~Handled("FullUpdate")
            /\ _get_metadata(store[d].service).cur.present )
          => NumVotesOf(store'[d]) >= NumVotesOf(store[d]) ]_vars

\* C16 as stated: every curation stored has a rating in [0, 5] with at most
\* one decimal place and a numVotes that is not negative.
C16_CurationWellFormed ==
    \A d \in DIDs :
        store[d] # NoDoc
        => \A k \in 1..Len(store[d].service) :
              (store[d].service[k].type = "metadata" /\ store[d].service[k].cur.present)
              => /\ store[d].service[k].cur.rating \in 0..5000
                 /\ store[d].service[k].cur.rating % 100 = 0
                 /\ store[d].service[k].cur.numVotes >= 0

\* C17 as stated: created is not later than updated in every stored document.
C17_CreatedNotAfterUpdated ==
    \A d \in DIDs :
        store[d] # NoDoc => store[d].created.v <= store[d].updated.v

\* The number of services of type metadata in a list of services.
MetadataCount(services) ==
    Cardinality({k \in 1..Len(services) : services[k].type = "metadata"})

\* C18 as stated: every stored document has exactly one service of type
\* metadata.
C18_ExactlyOneMetadata ==
    \A d \in DIDs :
        store[d] # NoDoc => MetadataCount(store[d].service) = 1

\* The services of a list that are not of type metadata, each named by its
\* type and index, in the order of the list.
OtherServices(services) ==
    LET others == SelectSeq(services, LAMBDA s : s.type # "metadata")
    IN  [k \in 1..Len(others) |-> <<others[k].type, others[k].index>>]

\* C19: after every step, position 0 of the service list of every stored
\* document holds a metadata service; a Create or FullUpdate that writes a
\* document leaves its other services in the order the payload had them, and
\* every other step leaves them in the order they were stored in.
C19_MetadataFirstOrderKept ==
    [][ \A d \in DIDs :
          store'[d] # NoDoc
          => /\ Len(store'[d].service) > 0
             /\ store'[d].service[1].type = "metadata"
             /\ IF store'[d] # store[d] /\ last'.op \in {"Create", "FullUpdate"}
                THEN OtherServices(store'[d].service)
                        = OtherServices(last'.payload.service)
                ELSE /\ store[d] # NoDoc
                     /\ OtherServices(store'[d].service)
                           = OtherServices(store[d].service) ]_vars

\* A FullUpdate replaced a stored document with a payload that listed a
\* service of another type first and two such services in all, and a
\* metadata service is stored first.
C19_Witness ==
    /\ last.op = "FullUpdate"
    /\ last.resp = Ok200
    /\ last.payload.service[1].type # "metadata"
    /\ Len(OtherServices(last.payload.service)) > 1
    /\ store[last.did] # NoDoc
    /\ store[last.did].service[1].type = "metadata"
    /\ OtherServices(store[last.did].service) = OtherServices(last.payload.service)

\* C20: a Registered DID becomes Unregistered only in a step that is a
\* successful Retire of that DID or a successful RetireAll; after every
\* other request, and after a Retire or RetireAll that was rejected, it is
\* still Registered.
C20_RegisteredUntilRetired ==
    [][ \A d \in DIDs :
          (store[d] # NoDoc /\ store'[d] = NoDoc)
          => /\ last'.resp = Ok200
             /\ \/ Handled("Retire") /\ last'.did = d
                \/ Handled("RetireAll") ]_vars

\* A Retire that came without a signature from a caller without
\* administrative capability was rejected, and the document is still stored.
C20_Witness ==
    /\ last.op = "Retire"
    /\ ~last.admin
    /\ ~last.auth.present
    /\ last.resp = Validation
    /\ store[last.did] # NoDoc

\* C21: a Retire of a Registered DID deletes its document exactly when the
\* caller has administrative capability or submits a pair that recovers to
\* the stored owner; it then answers 200, and no other document is touched.
\* Without either, the store is left as it was.
C21_RetireDeletesIffAuthorized ==
    [][ ( Handled("Retire") /\ store[last'.did] # NoDoc )
        => IF last'.admin \/ SignedByOwner(last', store)
           THEN /\ last'.resp = Ok200
                /\ store' = [store EXCEPT ![last'.did] = NoDoc]
           ELSE /\ last'.resp.code # 200
                /\ store' = store ]_vars

\* A caller without administrative capability retired a document with a
\* pair signed by the owner, while another document was stored.
C21_Witness ==
    /\ last.op = "Retire"
    /\ ~last.admin
    /\ last.auth.present
    /\ last.resp = Ok200
    /\ store[last.did] = NoDoc
    /\ \E d \in DIDs : store[d] # NoDoc

\* The operations that address one DID and do not register it.
LookupOps ==
    {"GetMetadata", "TransferOwnership", "RateUpdate", "WhitelistAdd",
     "WhitelistRemove", "PartialMetadataUpdate", "Retire"}

\* The body of a request has the fields its handler requires, an address
\* argument that is syntactically an address and numbers where it needs them.
BodyWellFormed(ev) ==
    CASE ev.op \in {"TransferOwnership", "WhitelistAdd", "WhitelistRemove"} ->
            ev.auth.present /\ isAddress(ev.addr)
      [] ev.op = "RateUpdate" ->
            /\ ev.auth.present
            /\ ev.rating.kind \in {"int", "float"}
            /\ ev.numVotes.kind = "int"
      [] ev.op = "PartialMetadataUpdate" -> ev.auth.present
      [] OTHER -> TRUE

\* C22 as stated: each of these operations on an Unregistered DID is answered
\* 404 and registers nothing; on a Registered DID none is answered 404.
C22_UnregisteredIs404 ==
    [][ \A op \in LookupOps :
          Handled(op)
          => IF store[last'.did] = NoDoc
             THEN last'.resp = NotFound /\ store' = store
             ELSE last'.resp # NotFound ]_vars

\* C22 amended: the same for a request whose body is well-formed; a
\* TransferOwnership, RateUpdate, WhitelistAdd, WhitelistRemove or
\* PartialMetadataUpdate whose body is not is answered 400 before the DID is
\* looked up. Either way nothing is registered.
C22_UnregisteredIs404WhenWellFormed ==
    [][ \A op \in LookupOps :
          Handled(op)
          => IF store[last'.did] = NoDoc
             THEN /\ store' = store
                  /\ last'.resp = IF BodyWellFormed(last') THEN NotFound ELSE Validation
             ELSE last'.resp # NotFound ]_vars

\* A RateUpdate signed by an allowed updater for a DID that is not Registered
\* was answered 404 and nothing is stored.
C22_Witness ==
    /\ last.op = "RateUpdate"
    /\ last.auth.present
    /\ \E a \in AllowedUpdaters : compare_eth_addresses(SignerOf(last), a)
    /\ BodyWellFormed(last)
    /\ last.resp = NotFound
    /\ store[last.did] = NoDoc

\* A payload misses a required attribute, carries a url in its files, has a
\* created that does not parse, or metadata attributes the schema rejects.
Defective(p) == p.defect \in {"missing", "url", "schema"} \/ ~strptimeOk(p.created)

SignedByUpdater(ev) ==
    /\ ev.auth.present
    /\ \E a \in AllowedUpdaters : compare_eth_addresses(SignerOf(ev), a)

\* An owner-gated request signed by an allowed updater who is not the owner
\* does not succeed and writes nothing.
UpdaterNotOwner ==
    \A op \in OwnerGatedOps :
        ( /\ Handled(op)
          /\ store[last'.did] # NoDoc
          /\ ~last'.admin
          /\ SignedByUpdater(last')
          /\ ~SignedByOwner(last', store) )
        => (last'.resp.code # 200 /\ store' = store)

\* C24 as stated: a RateUpdate on a Registered DID succeeds exactly when its
\* signer is an allowed updater, and an allowed updater's pair passes no
\* owner-gated operation.
C24_RateUpdateIffAllowed ==
    [][ /\ (Handled("RateUpdate") /\ store[last'.did] # NoDoc)
           => (last'.resp = Ok200 <=> SignedByUpdater(last'))
        /\ UpdaterNotOwner ]_vars

\* C24 amended: a RateUpdate on a Registered DID succeeds only when its
\* signer is an allowed updater, and then it does when it carries a numeric
\* rating and an integer numVotes and every stored metadata service has a
\* curation; with such a body and any other signer, the owner included, it
\* is answered 401 and writes nothing. An allowed updater's pair passes no
\* owner-gated operation.
C24_RateUpdateOnlyAllowed ==
    [][ /\ (Handled("RateUpdate") /\ store[last'.did] # NoDoc)
           => /\ last'.resp = Ok200 => SignedByUpdater(last')
              /\ ( /\ SignedByUpdater(last')
                   /\ BodyWellFormed(last')
                   /\ ~RatingsKeyError(store[last'.did].service) )
                 => last'.resp = Ok200
              /\ (BodyWellFormed(last') /\ ~SignedByUpdater(last'))
                 => (last'.resp = Unauthorized /\ store' = store)
        /\ UpdaterNotOwner ]_vars

\* A RateUpdate with a well-formed body signed by the owner of the document
\* was answered 401.
C24_Witness ==
    /\ last.op = "RateUpdate"
    /\ store[last.did] # NoDoc
    /\ SignedByOwner(last, store)
    /\ BodyWellFormed(last)
    /\ last.resp = Unauthorized

\* Whether each owner-gated handler, called on the document of DID d with
\* the pair auth and each of a few bodies, refuses the caller (401).
Refusals(st, clock, d, auth) ==
    {transfer_ownership(st, clock, d, auth, ACk).resp = Unauthorized,
     transfer_ownership(st, clock, d, auth, BLo).resp = Unauthorized,
     add_access_white_list(st, clock, d, auth, ACk).resp = Unauthorized,
     add_access_white_list(st, clock, d, auth, BLo).resp = Unauthorized,
     delete_access_white_list(st, clock, d, auth, ACk).resp = Unauthorized,
     delete_access_white_list(st, clock, d, auth, BLo).resp = Unauthorized,
     retire(st, d, FALSE, auth).resp = Unauthorized}
        \cup {update_metadata(st, clock, d, auth, mu).resp = Unauthorized : mu \in MetaInputsSvc}

\* C25: for every Registered DID and every pair, all owner-gated operations,
\* whatever their body, refuse the pair exactly when its signer is not the
\* stored owner: whether a pair is accepted depends on the pair and the
\* stored owner only, in every state the document goes through.
C25_PairAcceptedByAll ==
    \A d \in DIDs, auth \in AuthInputs :
        (auth.present /\ store[d] # NoDoc)
        => Refusals(store, now, d, auth)
              = {~compare_eth_addresses(recoverSigner(auth.updated, auth.sig),
                                        store[d].owner)}

\* The owner's pair was accepted by a PartialMetadataUpdate on a document
\* whose whitelist had been written with the same pair at an earlier time.
C25_Witness ==
    /\ last.op = "PartialMetadataUpdate"
    /\ last.resp = Ok200
    /\ last.auth = Auth("m1", Sig("m1", "A"))
    /\ store[last.did] # NoDoc
    /\ store[last.did].owner = ALo
    /\ Len(store[last.did].wl.items) > 0
    /\ store[last.did].updated.v > store[last.did].created.v

\* C26 as stated: the id of every stored document is the DID it is stored
\* under.
C26_IdIsKey ==
    \A d \in DIDs : store[d] # NoDoc => store[d].id = d

\* C27 as stated: a FullUpdate addressed to an Unregistered DID is answered
\* 201 only if the DID is Registered afterwards with the document a Create
\* of the payload stores.
C27_FallbackCreates ==
    [][ ( /\ Handled("FullUpdate")
          /\ store[last'.did] = NoDoc
          /\ last'.resp = Ok201 )
        => store'[last'.did] = RegisterRecord(last'.payload) ]_vars

ServiceKeys(services) ==
    [k \in 1..Len(services) |-> <<services[k].type, services[k].index>>]

\* C29: the services a Create or FullUpdate stored are a stable partition of
\* the services of its payload: as many, the metadata services in their
\* order, then the others in theirs; reordering what was stored changes
\* nothing, and a FullUpdate stores the very services of its payload.
C29_ReorderStablePartition ==
    [][ ( /\ Handled("Create") \/ Handled("FullUpdate")
          /\ last'.resp.code \in {200, 201}
          /\ store'[last'.did] # NoDoc )
        => LET s == ServiceKeys(last'.payload.service)
               r == ServiceKeys(store'[last'.did].service)
           IN  /\ Len(r) = Len(s)
               /\ SelectSeq(r, LAMBDA x : x[1] = "metadata")
                     = SelectSeq(s, LAMBDA x : x[1] = "metadata")
               /\ SelectSeq(r, LAMBDA x : x[1] # "metadata")
                     = SelectSeq(s, LAMBDA x : x[1] # "metadata")
               /\ \A i, j \in 1..Len(r) :
                     (i < j /\ r[j][1] = "metadata") => r[i][1] = "metadata"
               /\ _reorder_services(store'[last'.did].service)
                     = store'[last'.did].service
               /\ last'.resp = Ok200
                  => LET p == last'.payload.service
                         q == store'[last'.did].service
                     IN  {q[k] : k \in 1..Len(q)} = {p[k] : k \in 1..Len(p)} ]_vars

\* A FullUpdate stored a payload that listed a metadata service between two
\* other services.
C29_Witness ==
    /\ last.op = "FullUpdate"
    /\ last.resp = Ok200
    /\ Len(last.payload.service) > 2
    /\ last.payload.service[1].type # "metadata"
    /\ last.payload.service[2].type = "metadata"
    /\ last.payload.service[3].type # "metadata"
    /\ store[last.did] # NoDoc
    /\ ServiceKeys(store[last.did].service)
          = <<<<"metadata", 2>>, <<"access", 1>>, <<"access", 3>>>>

\* C30: a PartialMetadataUpdate of the owner with servicePrices sets the
\* price of each service whose own index an entry names (and that has
\* attributes.main) to the price of that entry, leaves every other price as
\* it was, and succeeds.
C30_PriceByServiceIndex ==
    [][ ( /\ Handled("PartialMetadataUpdate")
          /\ store[last'.did] # NoDoc
          /\ SignedByOwner(last', store)
          /\ last'.mu.servicePrices.kind = "list" )
        => /\ last'.resp = Ok200
           /\ store'[last'.did] # NoDoc
           /\ Len(store'[last'.did].service) = Len(store[last'.did].service)
           /\ \A k \in 1..Len(store[last'.did].service) :
                 LET s == store[last'.did].service[k] IN
                 store'[last'.did].service[k].price
                    = IF s.main
                      THEN PriceAt(s.price, s.index, last'.mu.servicePrices.v, 1)
                      ELSE s.price ]_vars

\* The services with the fields a RateUpdate names put back to those of old.
RatingsPutBack(new, old) ==
    [k \in 1..Len(new) |->
        IF k <= Len(old)
        THEN [new[k] EXCEPT !.cur.rating = old[k].cur.rating,
                            !.cur.numVotes = old[k].cur.numVotes]
        ELSE new[k]]

\* The services with the fields a PartialMetadataUpdate names put back to
\* those of old.
MetadataPutBack(new, old) ==
    [k \in 1..Len(new) |->
        IF k <= Len(old)
        THEN [new[k] EXCEPT !.name = old[k].name, !.desc = old[k].desc,
                            !.links = old[k].links, !.price = old[k].price]
        ELSE new[k]]

\* The document new with updated, and the fields the operation op names, put
\* back to those of old.
PutBack(op, new, old) ==
    LET d == [new EXCEPT !.updated = old.updated] IN
    CASE op = "TransferOwnership" -> [d EXCEPT !.owner = old.owner]
      [] op = "RateUpdate" ->
            [d EXCEPT !.service = RatingsPutBack(new.service, old.service)]
      [] op \in {"WhitelistAdd", "WhitelistRemove"} -> [d EXCEPT !.wl = old.wl]
      [] op = "PartialMetadataUpdate" ->
            [d EXCEPT !.service = MetadataPutBack(new.service, old.service)]
      [] OTHER -> d

InPlaceOps ==
    {"TransferOwnership", "RateUpdate", "WhitelistAdd", "WhitelistRemove",
     "PartialMetadataUpdate"}

\* C31: a successful TransferOwnership, RateUpdate, WhitelistAdd,
\* WhitelistRemove or PartialMetadataUpdate leaves the document stored, and
\* the document differs from the one before in updated and in the fields the
\* operation names only: the owner; rating and numVotes of the curation; the
\* whitelist; name, description, links and prices. id, created, isListed and
\* the order of the services are as before, and so is every other document.
C31_InPlaceFrame ==
    [][ \A op \in InPlaceOps :
          ( /\ Handled(op)
            /\ last'.resp = Ok200 )
          => /\ store[last'.did] # NoDoc
             /\ store'[last'.did] # NoDoc
             /\ PutBack(op, store'[last'.did], store[last'.did]) = store[last'.did]
             /\ \A d \in DIDs \ {last'.did} : store'[d] = store[d] ]_vars

\* A RateUpdate succeeded on a document with two metadata services and an
\* access service, whose owner had been changed and whose whitelist and
\* prices had been written.
C31_Witness ==
    /\ last.op = "RateUpdate"
    /\ last.resp = Ok200
    /\ store[last.did] # NoDoc
    /\ store[last.did].owner = BLo
    /\ Len(store[last.did].wl.items) > 0
    /\ Len(store[last.did].service) = 3
    /\ store[last.did].service[1].price = "9"
    /\ store[last.did].service[1].cur.rating = 2400
    /\ store[last.did].service[1].cur.isListed

\* C32 as stated: the attributes of the metadata service of a stored document
\* have passed the remote schema: whenever a request stores a document whose
\* metadata attributes are new or differ from those stored before, it is a
\* Create or a FullUpdate, the requests that hand the attributes to
\* is_valid_dict_remote and are refused when it rejects them.
C32_StoredMetadataValidated ==
    [][ \A d \in DIDs :
          ( /\ store'[d] # NoDoc
            /\ \/ store[d] = NoDoc
               \/ _get_metadata(store'[d].service) # _get_metadata(store[d].service) )
          => /\ Handled("Create") \/ Handled("FullUpdate")
             /\ last'.payload.defect # "schema" ]_vars

\* A timestamp of the payload that Create and FullUpdate canonicalize does
\* not parse: created, or dateCreated of the metadata service.
BadTimestamp(p) == ~strptimeOk(p.created) \/ p.defect = "date"

\* C33 as stated: a Create, or a FullUpdate of a local caller, whose payload
\* has its required attributes and a metadata service and carries a created
\* or a dateCreated that does not parse is answered 400 (ValidationError) and
\* writes nothing.
C33_BadTimestampIs400 ==
    [][ ( /\ Handled("Create") \/ (Handled("FullUpdate") /\ last'.admin)
          /\ HasMetadata(last'.payload.service)
          /\ BadTimestamp(last'.payload) )
        => (last'.resp = Validation /\ store' = store) ]_vars

\* C34 as stated: a successful TransferOwnership to newOwner leaves a document
\* on which every owner-gated operation accepts the pairs newOwner signed and
\* refuses every other pair, those of the owner before included; and no step
\* other than a successful TransferOwnership changes, for a DID that stays
\* Registered, which pairs the owner-gated operations refuse.
C34_OldOwnerRefusedUntilTransfer ==
    [][ \A d \in DIDs, auth \in {a \in AuthInputs : a.present} :
          LET transferred == /\ Handled("TransferOwnership")
                             /\ last'.did = d
                             /\ last'.resp = Ok200
          IN  /\ transferred
                 => Refusals(store', now', d, auth)
                       = {~compare_eth_addresses(
                              recoverSigner(auth.updated, auth.sig), last'.addr)}
              /\ (store[d] # NoDoc /\ store'[d] # NoDoc /\ ~transferred)
                 => Refusals(store', now', d, auth) = Refusals(store, now, d, auth)
      ]_vars

\* C35 as stated: while a DID stays Registered, no step stores an updated
\* earlier than the one it replaces.
C35_UpdatedNeverDecreases ==
    [][ \A d \in DIDs :
          (store[d] # NoDoc /\ store'[d] # NoDoc)
          => store'[d].updated.v >= store[d].updated.v ]_vars

\* C36 as stated: every document a step stores has a list as its
\* accesssWhiteList, and a WhitelistAdd or WhitelistRemove on a Registered
\* DID that names an address and is signed by the stored owner is answered
\* with success or Conflict.
C36_WhitelistAlwaysList ==
    [][ /\ \A d \in DIDs : store'[d] # NoDoc => store'[d].wl.kind = "list"
        /\ ( /\ Handled("WhitelistAdd") \/ Handled("WhitelistRemove")
             /\ store[last'.did] # NoDoc
             /\ isAddress(last'.addr)
             /\ SignedByOwner(last', store) )
           => last'.resp \in {Ok200, Conflict} ]_vars

\* C37 as stated: in a marketplace configured for free assets only, no stored
\* document has a metadata service with a price other than "0".
C37_FreeOnlyNoPrice ==
    freeOnly => \A d \in DIDs : store[d] # NoDoc => ~Priced(store[d].service)

====
